---- MODULE Spec2Model ----
(***************************************************************************)
(* Model of ArmLengthSimulation (src/src/index.ts).                         *)
(*                                                                          *)
(* The program searches every combination of segment lengths drawn from a  *)
(* domain that sums to a total (findAllCombinations / findNumbers), expands *)
(* each combination into its orderings, builds one Arm per ordering, sorts  *)
(* the Arms by torque at the base and reports the best, the worst and the   *)
(* first Arm whose three first components have equal length.               *)
(*                                                                          *)
(* Arrays are 1-based here (index 0 of the source is index 1 of the model). *)
(* Real quantities are exact scaled integers (see the arithmetic section).  *)
(***************************************************************************)
EXTENDS Integers, Sequences, FiniteSets

(***************************************************************************)
(* Bounds of the model.                                                     *)
(***************************************************************************)
\* findAllCombinations on its own: domains are subsets of 1..MaxVal with at
\* most MaxDomain members, sums are -1..MaxSum, counts are 0..MaxCount.
MaxVal == 10
MaxDomain == 3
MaxSum == 12
MaxCount == 3
\* The whole program: domains are the ranges of lengths within MinLen..MaxLen,
\* totals are 0..MaxTotal, arms have 0..MaxSegments segments.
MaxLen == 8
MaxTotal == 26
MaxSegments == 4

VARIABLES
    domain,     \* the values of the `input` argument of findAllCombinations
    sum,        \* the `sum` argument of findAllCombinations
    maxLength,  \* the `maxLength` argument of findAllCombinations
    input,      \* findAllCombinations' local `input` after Set + sort()
    acc,        \* the shared result accumulator
    temp,       \* the shared partial sequence
    stack,      \* the activation records of findNumbers, innermost last
    pc,         \* position of the program
    possibleArmLengths,
    possibleArmLengthPermutations,
    filteredArmLengthPermutations,
    arms,
    bestArm,
    worstArm,
    symmetricArm    \* the value of the arms.find(...) that is printed last

search == <<input, acc, temp, stack>>
args == <<domain, sum, maxLength>>
lists == <<possibleArmLengthPermutations, filteredArmLengthPermutations, arms>>
picks == <<bestArm, worstArm, symmetricArm>>
vars == <<args, search, pc, possibleArmLengths, lists, picks>>

(***************************************************************************)
(* Arithmetic on the program's real quantities.                             *)
(*                                                                          *)
(* A Num is a non-negative integer of any size, held as its base-10000      *)
(* digits, least significant first, without leading zeros.  Every real of   *)
(* the program is a Num counted in a fixed unit: areas in 10^-15 in^2,      *)
(* masses in 10^-28 lb, and mass times distance in 10^-28 lb*in.  Sums and  *)
(* products are therefore exact; the rounding of IEEE doubles is not        *)
(* modelled.  A quotient is kept as the pair of its numerator and its       *)
(* denominator.                                                             *)
(***************************************************************************)
Base == 10 ^ 4

RECURSIVE NumOf(_)
NumOf(n) == IF n = 0 THEN <<>> ELSE <<n % Base>> \o NumOf(n \div Base)

RECURSIVE Trim(_)
Trim(a) ==
    IF a = <<>> THEN a
    ELSE IF a[Len(a)] = 0 THEN Trim(SubSeq(a, 1, Len(a) - 1))
    ELSE a

Digit(a, k) == IF k <= Len(a) THEN a[k] ELSE 0
Longest(a, b) == IF Len(a) >= Len(b) THEN Len(a) ELSE Len(b)

RECURSIVE AddFrom(_, _, _, _, _)
\* the digits lo..hi of a + b given the carry into digit lo, and the carry out
AddFrom(a, b, lo, hi, carry) ==
    IF lo = hi
    THEN LET t == Digit(a, lo) + Digit(b, lo) + carry
         IN  [digits |-> <<t % Base>>, carry |-> t \div Base]
    ELSE LET mid == (lo + hi) \div 2
             low == AddFrom(a, b, lo, mid, carry)
             high == AddFrom(a, b, mid + 1, hi, low.carry)
         IN  [digits |-> low.digits \o high.digits, carry |-> high.carry]

\* a + b
NumAdd(a, b) ==
    IF a = <<>> THEN b
    ELSE IF b = <<>> THEN a
    ELSE LET r == AddFrom(a, b, 1, Longest(a, b), 0)
         IN  IF r.carry = 0 THEN r.digits ELSE Append(r.digits, r.carry)

RECURSIVE SubFrom(_, _, _, _, _)
\* the digits lo..hi of a - b given the borrow from digit lo, and the borrow out
SubFrom(a, b, lo, hi, borrow) ==
    IF lo = hi
    THEN LET t == Digit(a, lo) - Digit(b, lo) - borrow
         IN  IF t < 0 THEN [digits |-> <<t + Base>>, borrow |-> 1]
             ELSE [digits |-> <<t>>, borrow |-> 0]
    ELSE LET mid == (lo + hi) \div 2
             low == SubFrom(a, b, lo, mid, borrow)
             high == SubFrom(a, b, mid + 1, hi, low.borrow)
         IN  [digits |-> low.digits \o high.digits, borrow |-> high.borrow]

\* a - b, for a >= b
NumSub(a, b) == IF a = <<>> THEN a ELSE Trim(SubFrom(a, b, 1, Len(a), 0).digits)

RECURSIVE ScaleFrom(_, _, _, _, _)
\* the digits lo..hi of a * d given the carry into digit lo, and the carry out
ScaleFrom(a, d, lo, hi, carry) ==
    IF lo = hi
    THEN LET t == a[lo] * d + carry
         IN  [digits |-> <<t % Base>>, carry |-> t \div Base]
    ELSE LET mid == (lo + hi) \div 2
             low == ScaleFrom(a, d, lo, mid, carry)
             high == ScaleFrom(a, d, mid + 1, hi, low.carry)
         IN  [digits |-> low.digits \o high.digits, carry |-> high.carry]

\* a * d for one digit d
NumScale(a, d) ==
    IF d = 0 \/ a = <<>> THEN <<>>
    ELSE LET r == ScaleFrom(a, d, 1, Len(a), 0)
         IN  r.digits \o NumOf(r.carry)

\* a * Base^n
ShiftLeft(a, n) == IF a = <<>> THEN a ELSE [k \in 1..n |-> 0] \o a

RECURSIVE MulDigits(_, _, _, _)
\* a * (the digits lo..hi of b)
MulDigits(a, b, lo, hi) ==
    IF lo = hi THEN NumScale(a, b[lo])
    ELSE LET mid == (lo + hi) \div 2
         IN  NumAdd(MulDigits(a, b, lo, mid),
                    ShiftLeft(MulDigits(a, b, mid + 1, hi), mid + 1 - lo))

\* a * b
NumMul(a, b) ==
    IF b = <<>> \/ a = <<>> THEN <<>> ELSE MulDigits(a, b, 1, Len(b))

\* a < b for a and b of k digits: decided by the highest digit they differ in
LessFrom(a, b, k) ==
    LET differ == {j \in 1..k : a[j] # b[j]}
    IN  /\ differ # {}
        /\ \E j \in differ : (\A other \in differ : other <= j) /\ a[j] < b[j]

\* a < b
NumLess(a, b) ==
    IF Len(a) # Len(b) THEN Len(a) < Len(b) ELSE LessFrom(a, b, Len(a))

\* a length or distance in whole inches times a mass
Times(n, m) == NumMul(m, NumOf(n))

One == NumOf(1)

\* numerator / denominator
Quotient(n, d) == [num |-> n, den |-> d]

\* q * m, kept in lowest terms when m is q's own denominator
QuotientTimes(q, m) ==
    IF q.den = m THEN Quotient(q.num, One) ELSE Quotient(NumMul(q.num, m), q.den)

\* p < q and p = q as reals
QuotientLess(p, q) == NumLess(NumMul(p.num, q.den), NumMul(q.num, p.den))
QuotientEqual(p, q) == NumMul(p.num, q.den) = NumMul(q.num, p.den)

\* a number of thousandths of a pound, as a mass
Pounds(thousandths) == ShiftLeft(NumOf(thousandths * 10), 6)
\* a number of tenths of a square inch, as an area
SquareInches(tenths) == ShiftLeft(NumOf(tenths * 100), 3)

\* Math.PI, 3.141592653589793, in units of 10^-15
PI == <<9793, 5358, 5926, 3141>>

(***************************************************************************)
(* Segment, lines 24-80.  A Segment is the record of its two fields.        *)
(***************************************************************************)
SEGMENT_WIDTH == 6              \* in
MATERIAL_THICKNESS == 23622     \* 0.23622 in, in units of 10^-5 in
MATERIAL_DENSITY == 975437      \* 0.0975437 lb/in^3, in units of 10^-7
HOLE_AREA_A == 39               \* 3.9 in^2, in tenths
HOLE_AREA_B == 11               \* 1.1 in^2, in tenths
BEARING_EDGE_DISTANCE == 3      \* in
WEIGHT_REDUCTION_RATIO == 4     \* 0.4, in tenths
MATERIAL_PLATES == 2            \* this.materialMass = segmentMass * 2

CAN_SPARK_MAX == 250            \* 0.25 lb, in thousandths
NEO_MOTOR_MASS == 938           \* 0.938 lb
GEARBOX_BASE_KIT_MASS == 576    \* 0.576 lb
GEARBOX_5_STAGE_MASS == 303     \* 0.303 lb
GEARBOX_STAGES == 3             \* GEARBOX_5_STAGE_MASS * 3
CHAIN_SPROCKET_MASS == 500      \* 0.5 lb
MASS_OFFSET == 5                \* in

HOLE_AREA == SquareInches(HOLE_AREA_A + HOLE_AREA_B)
ROUND_AREA ==
    NumSub(SquareInches(SEGMENT_WIDTH * SEGMENT_WIDTH * 10),
           NumScale(PI, (SEGMENT_WIDTH \div 2) * (SEGMENT_WIDTH \div 2)))
TOTAL_NEGATIVE_AREA == NumAdd(HOLE_AREA, ROUND_AREA)

\* the constructor's computation of this.materialMass
MaterialMass(length) ==
    LET lengthWithEdges == length + 2 * BEARING_EDGE_DISTANCE
        segmentArea ==
            NumSub(SquareInches(lengthWithEdges * SEGMENT_WIDTH * 10), TOTAL_NEGATIVE_AREA)
        segmentVolume == NumMul(segmentArea, NumOf(MATERIAL_THICKNESS))
        segmentMass ==
            NumScale(NumMul(segmentVolume, NumOf(MATERIAL_DENSITY)), WEIGHT_REDUCTION_RATIO)
    IN  NumScale(segmentMass, MATERIAL_PLATES)

Segment(length) ==
    [type |-> "Segment", length |-> length, materialMass |-> MaterialMass(length)]

CanSparkMax == Pounds(CAN_SPARK_MAX)
NeoMotorMass == Pounds(NEO_MOTOR_MASS)
GearboxBaseKitMass == Pounds(GEARBOX_BASE_KIT_MASS)
GearboxStagesMass == NumScale(Pounds(GEARBOX_5_STAGE_MASS), GEARBOX_STAGES)
ChainSprocketMass == Pounds(CHAIN_SPROCKET_MASS)

SegmentGetMass(seg) ==
    NumAdd(NumAdd(NumAdd(NumAdd(NumAdd(seg.materialMass,
        CanSparkMax), NeoMotorMass), GearboxBaseKitMass), GearboxStagesMass),
        ChainSprocketMass)

SegmentGetLength(seg) == seg.length

SegmentGetCenterOfMass(seg) == seg.length - MASS_OFFSET

(***************************************************************************)
(* Grabber, lines 82-92.                                                    *)
(***************************************************************************)
GRABBER_MASS == 7500            \* 7.5 lb, in thousandths
GRABBER_LENGTH == 12            \* in
GRABBER_CENTER == 4             \* in

Grabber == [type |-> "Grabber"]
GrabberGetMass == Pounds(GRABBER_MASS)

\* dynamic dispatch on a component of an Arm
GetMass(c) == IF c.type = "Segment" THEN SegmentGetMass(c) ELSE GrabberGetMass
GetLength(c) == IF c.type = "Segment" THEN SegmentGetLength(c) ELSE GRABBER_LENGTH
GetCenterOfMass(c) ==
    IF c.type = "Segment" THEN SegmentGetCenterOfMass(c) ELSE GRABBER_CENTER

(***************************************************************************)
(* Arm, lines 94-137, and Massive.getTorqueAtBase, lines 11-13.             *)
(***************************************************************************)
\* new Arm(...segmentLengths): one Segment per length, then the Grabber
Arm(segmentLengths) ==
    [type |-> "Arm",
     components |->
        Append([k \in 1..Len(segmentLengths) |-> Segment(segmentLengths[k])], Grabber)]

RECURSIVE ReduceMass(_, _)
\* components.reduce((acc, component) => acc + component.getMass(), 0)
ReduceMass(components, n) ==
    IF n = 0 THEN <<>>
    ELSE NumAdd(ReduceMass(components, n - 1), GetMass(components[n]))

ArmGetMass(arm) == ReduceMass(arm.components, Len(arm.components))

RECURSIVE ReduceLength(_, _)
\* components.reduce((acc, component) => acc + component.getLength(), 0)
ReduceLength(components, n) ==
    IF n = 0 THEN 0
    ELSE ReduceLength(components, n - 1) + GetLength(components[n])

ArmGetLength(arm) == ReduceLength(arm.components, Len(arm.components))

\* (the inner reduce running over the component itself as well)
UpToSelf(dSoFar) == Len(dSoFar) + 1
\* how many of the leading components the inner reduce runs over: one per
\* element already pushed to acc
PreviousCount(dSoFar) == Len(dSoFar)

RECURSIVE SumOfDistances(_, _)
\* (the inner reduce adding up the distances already pushed, not the lengths)
SumOfDistances(components, dSoFar) ==
    IF dSoFar = <<>> THEN 0
    ELSE Head(dSoFar) + SumOfDistances(components, Tail(dSoFar))

\* index === 0 ? 0 : acc.reduce((length, _, index) => length + components[index].getLength(), 0)
LengthOfPreviousComponents(components, dSoFar) ==
    ReduceLength(components, PreviousCount(dSoFar))

RECURSIVE Distances(_, _)
\* the array d after the first n components: acc.push(lengthOfPreviousComponents
\* + component.getCenterOfMass())
Distances(components, n) ==
    IF n = 0 THEN <<>>
    ELSE LET dSoFar == Distances(components, n - 1)
         IN  Append(dSoFar, LengthOfPreviousComponents(components, dSoFar)
                         + GetCenterOfMass(components[n]))

RECURSIVE ReduceWeighted(_, _, _)
\* components.reduce((weightedMass, component, index) =>
\*     weightedMass + component.getMass() * d[index], 0)
ReduceWeighted(components, d, n) ==
    IF n = 0 THEN <<>>
    ELSE NumAdd(ReduceWeighted(components, d, n - 1), Times(d[n], GetMass(components[n])))

ArmGetCenterOfMass(arm) ==
    LET d == Distances(arm.components, Len(arm.components))
        numerator == ReduceWeighted(arm.components, d, Len(arm.components))
        denominator == ReduceMass(arm.components, Len(arm.components))
    IN  Quotient(numerator, denominator)

\* return this.getCenterOfMass() * this.getMass()
GetTorqueAtBase(arm) == QuotientTimes(ArmGetCenterOfMass(arm), ArmGetMass(arm))

(***************************************************************************)
(* Array.prototype.sort() without a comparator: elements are compared as    *)
(* strings, by UTF-16 code unit; for non-negative integers that is the      *)
(* lexicographic order of their decimal digits.                             *)
(***************************************************************************)
RECURSIVE ToStr(_)
ToStr(n) == IF n < 10 THEN <<n>> ELSE Append(ToStr(n \div 10), n % 10)

RECURSIVE StrLess(_, _)
StrLess(s, t) ==
    IF t = <<>> THEN FALSE
    ELSE IF s = <<>> THEN TRUE
    ELSE IF Head(s) # Head(t) THEN Head(s) < Head(t)
    ELSE StrLess(Tail(s), Tail(t))

DefaultCompare(a, b) == StrLess(ToStr(a), ToStr(b))

\* the values of S that the comparison puts before x
Before(S, x) == {y \in S \ {x} : DefaultCompare(y, x)}

\* [...new Set(input)].sort(): each value at the position after those the
\* comparison puts before it
SortSet(S) ==
    [k \in 1..Cardinality(S) |-> CHOOSE x \in S : Cardinality(Before(S, x)) = k - 1]

\* temp.indexOf(v): the first position holding v, 0 when there is none.
IndexOf(s, v) ==
    IF \E k \in 1..Len(s) : s[k] = v
    THEN CHOOSE k \in 1..Len(s) : s[k] = v /\ \A j \in 1..(k - 1) : s[j] # v
    ELSE 0

\* temp.splice(idx, idx !== -1 ? 1 : 0)
Splice(s, idx) ==
    IF idx = 0 THEN s
    ELSE [k \in 1..(Len(s) - 1) |-> IF k < idx THEN s[k] ELSE s[k + 1]]

\* acc.filter(combo => combo.length === maxLength)
KeepAll(a, n) == a
FilterLength(a, n) == SelectSeq(a, LAMBDA combo : Len(combo) = n)

Top == stack[Len(stack)]
Pop == SubSeq(stack, 1, Len(stack) - 1)
SetTop(f) == [stack EXCEPT ![Len(stack)] = f]

\* The activation record of a call findNumbers(acc, input, sum, index, temp).
Frame(s, index) == [sum |-> s, index |-> index, i |-> index, at |-> "entry"]

\* The arguments passed down for the remaining sum and for the cursor:
\* findNumbers(acc, input, sum - input[i], i, temp)
\* (a loop that stops at the first value that does not fit)
BreakAtMisfit(s, i) ==
    IF i <= Len(input) /\ s - input[i] >= 0 THEN i ELSE Len(input) + 1

\* The for loop from position i on: an iteration whose guard
\* `sum - input[i] >= 0` fails does nothing, so the loop goes on to the first
\* position whose value fits, or off the end of input.
NextFit(s, i) ==
    LET fits == {j \in i..Len(input) : s - input[j] >= 0}
    IN  IF fits = {} THEN IF i > Len(input) THEN i ELSE Len(input) + 1
        ELSE CHOOSE j \in fits : \A other \in fits : j <= other

SameSum(s, i) == s
CallSum(s, i) == s - input[i]
FromStart(i) == 1
NextIndex(i) == i + 1
CallIndex(i) == i

(***************************************************************************)
(* findAllCombinations, lines 164-172, and findNumbers, lines 174-196.      *)
(***************************************************************************)
\* input = [...new Set(input)].sort(); acc = []; findNumbers(acc, input, sum, 0, [])
Start ==
    /\ pc = "start"
    /\ input' = SortSet(domain)
    /\ acc' = <<>>
    /\ temp' = <<>>
    /\ stack' = <<Frame(sum, 1)>>
    /\ pc' = "search"
    /\ UNCHANGED <<args, possibleArmLengths, lists, picks>>

\* if (sum == 0) { acc.push([...temp]); return }
Record ==
    /\ pc = "search" /\ stack # <<>>
    /\ Top.at = "entry" /\ Top.sum = 0
    /\ acc' = Append(acc, temp)
    /\ stack' = Pop
    /\ UNCHANGED <<args, input, temp, pc, possibleArmLengths, lists, picks>>

\* the frame is inside the for loop: past a failed `sum == 0`, or past a
\* recursive call and its backtracking
InLoop == (Top.at = "entry" /\ Top.sum # 0) \/ Top.at = "loop"

\* an iteration whose guard sum - input[i] >= 0 holds, after the iterations
\* whose guard fails: push and recurse
LoopTake ==
    /\ pc = "search" /\ stack # <<>>
    /\ InLoop
    /\ NextFit(Top.sum, Top.i) <= Len(input)
    /\ LET i == NextFit(Top.sum, Top.i)
       IN  /\ temp' = Append(temp, input[i])
           /\ stack' = Append(SetTop([Top EXCEPT !.i = i, !.at = "back"]),
                              Frame(CallSum(Top.sum, i), CallIndex(i)))
    /\ UNCHANGED <<args, input, acc, pc, possibleArmLengths, lists, picks>>

\* after the recursive call: idx = temp.indexOf(input[i]); temp.splice(idx, ...)
Backtrack ==
    /\ pc = "search" /\ stack # <<>>
    /\ Top.at = "back"
    /\ temp' = Splice(temp, IndexOf(temp, input[Top.i]))
    /\ stack' = SetTop([Top EXCEPT !.i = @ + 1, !.at = "loop"])
    /\ UNCHANGED <<args, input, acc, pc, possibleArmLengths, lists, picks>>

\* the for loop runs out, after the iterations whose guard fails: findNumbers
\* returns
LoopEnd ==
    /\ pc = "search" /\ stack # <<>>
    /\ InLoop
    /\ NextFit(Top.sum, Top.i) > Len(input)
    /\ stack' = Pop
    /\ UNCHANGED <<args, input, acc, temp, pc, possibleArmLengths, lists, picks>>

\* return acc.filter(combo => combo.length === maxLength)
Return ==
    /\ pc = "search" /\ stack = <<>>
    /\ possibleArmLengths' = FilterLength(acc, maxLength)
    /\ pc' = "searched"
    /\ UNCHANGED <<args, search, lists, picks>>

(***************************************************************************)
(* The script, lines 202-242.                                               *)
(***************************************************************************)
Undefined == [type |-> "undefined"]

\* Permutations.permutation(p): every ordering of p, one per permutation of
\* its positions
RECURSIVE Permutation(_)
Permutation(p) ==
    IF Len(p) <= 1 THEN <<p>>
    ELSE LET Without(k) == [j \in 1..(Len(p) - 1) |-> IF j < k THEN p[j] ELSE p[j + 1]]
             Led(k) == LET rest == Permutation(Without(k))
                       IN  [j \in 1..Len(rest) |-> <<p[k]>> \o rest[j]]
             RECURSIVE From(_)
             From(k) == IF k > Len(p) THEN <<>> ELSE Led(k) \o From(k + 1)
         IN  From(1)

\* the partitions themselves, one ordering each
Unpermuted(list) == list

RECURSIVE FlatMapFrom(_, _, _)
\* the orderings of list[lo..hi], partition after partition
FlatMapFrom(list, lo, hi) ==
    IF lo > hi THEN <<>>
    ELSE IF lo = hi THEN Permutation(list[lo])
    ELSE LET mid == (lo + hi) \div 2
         IN  FlatMapFrom(list, lo, mid) \o FlatMapFrom(list, mid + 1, hi)

\* possibleArmLengths.map(Permutations.permutation).flatMap(p => [...p])
FlatMapPermutation(list) == FlatMapFrom(list, 1, Len(list))

\* armConfig => true
KeepConfig(armConfig) == TRUE

\* (a, b) => a.getTorqueAtBase() - b.getTorqueAtBase(), on the torques: its sign
Descending(ta, tb) ==
    IF QuotientLess(tb, ta) THEN -1 ELSE IF QuotientLess(ta, tb) THEN 1 ELSE 0
Comparator(ta, tb) ==
    IF QuotientLess(ta, tb) THEN -1 ELSE IF QuotientLess(tb, ta) THEN 1 ELSE 0

\* how many of right[lo..hi], which is sorted, the comparator puts before t;
\* they are its first ones
CountBefore(right, t, lo, hi) ==
    lo - 1 + Cardinality({j \in lo..hi : Comparator(right[j].torque, t) < 0})

RECURSIVE Merge(_, _)
\* the stable merge of two sorted lists: an element of the right list goes
\* before an element of the left list only when the comparator says so
Merge(left, right) ==
    IF left = <<>> THEN right
    ELSE IF right = <<>> THEN left
    ELSE LET half == (Len(left) + 1) \div 2
             before == CountBefore(right, left[half].torque, 1, Len(right))
         IN  Merge(SubSeq(left, 1, half - 1), SubSeq(right, 1, before))
             \o <<left[half]>>
             \o Merge(SubSeq(left, half + 1, Len(left)),
                      SubSeq(right, before + 1, Len(right)))

RECURSIVE MergeSort(_)
MergeSort(list) ==
    IF Len(list) <= 1 THEN list
    ELSE LET half == Len(list) \div 2
         IN  Merge(MergeSort(SubSeq(list, 1, half)),
                   MergeSort(SubSeq(list, half + 1, Len(list))))

\* The torque of an Arm is a pure function of it: it is computed once per Arm.
WithTorque(list) ==
    [k \in 1..Len(list) |-> [arm |-> list[k], torque |-> GetTorqueAtBase(list[k])]]
ArmsOf(keyed) == [k \in 1..Len(keyed) |-> keyed[k].arm]

\* Array.prototype.sort with the torque comparator: a stable sort
SortByTorque(list) == ArmsOf(MergeSort(WithTorque(list)))

\* the callback of arms.find: "TypeError" when it calls getLength on a
\* component the Arm does not have
Symmetric(arm) ==
    LET c == arm.components
    IN  IF Len(c) < 2 THEN "TypeError"
        ELSE IF GetLength(c[1]) # GetLength(c[2]) THEN "false"
        ELSE IF Len(c) < 3 THEN "TypeError"
        ELSE IF GetLength(c[2]) = GetLength(c[3]) THEN "true" ELSE "false"

\* Array.prototype.find: the first element from position k on that the
\* callback holds of; the callback throwing ends the scan
FindFrom(list, k) ==
    LET stops == {j \in k..Len(list) : Symmetric(list[j]) # "false"}
    IN  IF stops = {} THEN Undefined
        ELSE LET first == CHOOSE j \in stops : \A other \in stops : j <= other
             IN  IF Symmetric(list[first]) = "TypeError" THEN [type |-> "TypeError"]
                 ELSE list[first]

\* const arms = filteredArmLengthPermutations.map(armConfig => new Arm(...armConfig))
Construct(configs) == [k \in 1..Len(configs) |-> Arm(configs[k])]

\* the list arms.find runs over
UnsortedList == Construct(filteredArmLengthPermutations)
ListOfFind == arms

Permute ==
    /\ pc = "searched"
    /\ possibleArmLengthPermutations' = FlatMapPermutation(possibleArmLengths)
    /\ pc' = "permuted"
    /\ UNCHANGED <<args, search, possibleArmLengths, filteredArmLengthPermutations,
                   arms, picks>>

Filter ==
    /\ pc = "permuted"
    /\ filteredArmLengthPermutations' = SelectSeq(possibleArmLengthPermutations, KeepConfig)
    /\ pc' = "filtered"
    /\ UNCHANGED <<args, search, possibleArmLengths, possibleArmLengthPermutations,
                   arms, picks>>

Build ==
    /\ pc = "filtered"
    /\ arms' = Construct(filteredArmLengthPermutations)
    /\ pc' = "built"
    /\ UNCHANGED <<args, search, possibleArmLengths, possibleArmLengthPermutations,
                   filteredArmLengthPermutations, picks>>

\* arms.sort(...) sorts the array in place
Sort ==
    /\ pc = "built"
    /\ arms' = SortByTorque(arms)
    /\ pc' = "sorted"
    /\ UNCHANGED <<args, search, possibleArmLengths, possibleArmLengthPermutations,
                   filteredArmLengthPermutations, picks>>

\* bestArm = arms[0]; worstArm = arms[arms.length - 1]; both are printed, then
\* bestArm.getTorqueAtBase() is called for the percent difference, which
\* throws a TypeError when the list is empty
Rank ==
    /\ pc = "sorted"
    /\ bestArm' = IF arms = <<>> THEN Undefined ELSE arms[1]
    /\ worstArm' = IF arms = <<>> THEN Undefined ELSE arms[Len(arms)]
    /\ pc' = IF arms = <<>> THEN "threw" ELSE "ranked"
    /\ UNCHANGED <<args, search, possibleArmLengths, lists, symmetricArm>>

\* console.log(arms.find(...))
Find ==
    /\ pc = "ranked"
    /\ LET found == FindFrom(ListOfFind, 1)
       IN  IF found.type = "TypeError"
           THEN pc' = "threw" /\ UNCHANGED symmetricArm
           ELSE pc' = "done" /\ symmetricArm' = found
    /\ UNCHANGED <<args, search, possibleArmLengths, lists, bestArm, worstArm>>

(***************************************************************************)
(* Specification of findAllCombinations over bounded inputs.                *)
(***************************************************************************)
Domains == {D \in SUBSET (1..MaxVal) : Cardinality(D) <= MaxDomain}

\* nothing has run yet
Idle ==
    /\ input = <<>> /\ acc = <<>> /\ temp = <<>> /\ stack = <<>>
    /\ pc = "start"
    /\ possibleArmLengths = <<>>
    /\ possibleArmLengthPermutations = <<>>
    /\ filteredArmLengthPermutations = <<>>
    /\ arms = <<>>
    /\ bestArm = Undefined /\ worstArm = Undefined /\ symmetricArm = Undefined

Init ==
    /\ domain \in Domains
    /\ sum \in (-1)..MaxSum
    /\ maxLength \in 0..MaxCount
    /\ Idle

Next ==
    \/ Start \/ Record \/ LoopTake \/ Backtrack \/ LoopEnd \/ Return

Spec == Init /\ [][Next]_vars

\* The search never reads maxLength (only the filter of the return does), so
\* for the run to completion one count is enough.
FairInit == Init /\ maxLength = MaxCount

\* The program is one synchronous thread: whatever step is enabled is taken.
FairSpec == FairInit /\ [][Next]_vars /\ WF_vars(Next)

(***************************************************************************)
(* Specifications of the whole program: on bounded arguments of             *)
(* findAllCombinations, and on the arguments the script passes.             *)
(***************************************************************************)
SEGMENTS == 3
TOTAL_LENGTH == 72
MIN_LENGTH == 12

\* const range = (start, end) => [...Array(end - start)].map((_, index) => index + start)
range(start, end) == [index \in 1..(end - start) |-> (index - 1) + start]
irange(start, end) == range(start, end + 1)

\* segment lengths from MASS_OFFSET up, so that every distance is a natural
MinLen == MASS_OFFSET

RunInit ==
    /\ \E lo \in MinLen..MaxLen, hi \in (MinLen - 1)..MaxLen :
          LET r == irange(lo, hi) IN domain = {r[k] : k \in 1..Len(r)}
    /\ sum \in 0..MaxTotal
    /\ maxLength \in 0..MaxSegments
    /\ Idle

DefaultInit ==
    /\ domain = LET r == irange(MIN_LENGTH, TOTAL_LENGTH - MIN_LENGTH * (SEGMENTS - 1))
                IN  {r[k] : k \in 1..Len(r)}
    /\ sum = TOTAL_LENGTH
    /\ maxLength = SEGMENTS
    /\ Idle

RunNext == Next \/ Permute \/ Filter \/ Build \/ Sort \/ Rank \/ Find

RunSpec == RunInit /\ [][RunNext]_vars

DefaultSpec == DefaultInit /\ [][RunNext]_vars

(***************************************************************************)
(* Properties of findAllCombinations.                                       *)
(***************************************************************************)
RECURSIVE SeqSum(_)
SeqSum(s) == IF s = <<>> THEN 0 ELSE Head(s) + SeqSum(Tail(s))

Range(s) == {s[k] : k \in 1..Len(s)}

RECURSIVE SetSum(_)
SetSum(S) == IF S = {} THEN 0 ELSE LET x == CHOOSE y \in S : TRUE IN x + SetSum(S \ {x})

\* position of a value in the array the search runs over
Position(v) == IndexOf(input, v)

Results == {possibleArmLengths[k] : k \in 1..Len(possibleArmLengths)}

StrictlyAscending(c) == \A k \in 1..(Len(c) - 1) : c[k] < c[k + 1]
NonDecreasing(c) == \A k \in 1..(Len(c) - 1) : c[k] <= c[k + 1]
SameDigitCount == \A x, y \in domain : Len(ToStr(x)) = Len(ToStr(y))

\* C1: every returned sequence has exactly maxLength elements, each a member
\* of the domain, and the elements sum exactly to the target sum.
C1_ResultsWellFormed ==
    pc = "searched" =>
        \A c \in Results :
            /\ Len(c) = maxLength
            /\ Range(c) \subseteq domain
            /\ SeqSum(c) = sum

C1_Witness ==
    /\ pc = "searched"
    /\ Len(possibleArmLengths) >= 2
    /\ Len(acc) > Len(possibleArmLengths)

\* C2 as claimed: every returned sequence is strictly ascending in numeric
\* value, so that no domain value occurs twice within one result.
C2_StrictlyAscending ==
    pc = "searched" => \A c \in Results : StrictlyAscending(c)

\* C2 as amended: every returned sequence follows the order of the array the
\* search runs over (the domain as sort() without a comparator leaves it, in
\* order of decimal strings), a value may occur several times in a row, and
\* when all domain values have the same number of digits the sequence is
\* numerically non-decreasing.
C2_FollowsSortOrder ==
    pc = "searched" =>
        \A c \in Results :
            /\ \A k \in 1..(Len(c) - 1) : Position(c[k]) <= Position(c[k + 1])
            /\ SameDigitCount => NonDecreasing(c)

C2_Witness ==
    /\ pc = "searched"
    /\ \E c \in Results : Len(c) >= 2 /\ c[1] > c[2]

\* the k-element selections of distinct domain values that sum to the target
Selections == {S \in SUBSET domain : Cardinality(S) = maxLength /\ SetSum(S) = sum}

Occurrences(S) ==
    {k \in 1..Len(possibleArmLengths) :
        Len(possibleArmLengths[k]) = Cardinality(S) /\ Range(possibleArmLengths[k]) = S}

CallsDecrease ==
    \A k \in 2..Len(stack) :
        /\ stack[k].sum < stack[k - 1].sum
        /\ stack[k].index = stack[k - 1].i

\* C9: every recursive call of findNumbers is made with a strictly smaller
\* remaining sum than its caller, the cursor being passed on at the same
\* position, and findAllCombinations eventually returns.
C9_Terminates == [](CallsDecrease) /\ <>(pc = "searched")

C9_Witness ==
    /\ pc = "search"
    /\ Len(stack) >= 3
    /\ stack[3].index = stack[2].index
    /\ stack[3].index > 1

(***************************************************************************)
(* Properties of the whole program.                                         *)
(***************************************************************************)
RECURSIVE Factorial(_)
Factorial(n) == IF n <= 1 THEN 1 ELSE n * Factorial(n - 1)

\* the segment lengths an Arm was built from, in order
Lengths(arm) == [k \in 1..(Len(arm.components) - 1) |-> arm.components[k].length]

Count(s, v) == Cardinality({k \in 1..Len(s) : s[k] = v})

\* the distinct orderings of the values of p
Rearrangements(p) ==
    {o \in [1..Len(p) -> Range(p)] : \A v \in Range(p) : Count(o, v) = Count(p, v)}

\* the positions of the orderings of the j-th partition
Block(j) == ((j - 1) * Factorial(maxLength) + 1)..(j * Factorial(maxLength))

Third == TOTAL_LENGTH \div SEGMENTS
EqualThirds == [k \in 1..SEGMENTS |-> Third]
Searched == pc \notin {"start", "search"}
Built == pc \in {"built", "sorted", "ranked", "done"}

\* C5 as claimed: with the default parameters <<24, 24, 24>> is never
\* produced, no Arm has three equal segment lengths, and the symmetric lookup
\* finds nothing.
C5_NoSymmetricArm ==
    /\ Searched => EqualThirds \notin Results
    /\ Built => \A k \in 1..Len(arms) : Lengths(arms[k]) # EqualThirds
    /\ pc = "done" => symmetricArm = Undefined

\* C5 as amended: with the default parameters <<24, 24, 24>> is produced, an
\* Arm is built from it, and the symmetric lookup returns an Arm whose three
\* segments are 24 long.
C5_SymmetricArmFound ==
    /\ Searched => EqualThirds \in Results
    /\ Built => \E k \in 1..Len(arms) : Lengths(arms[k]) = EqualThirds
    /\ pc = "done" => symmetricArm = Arm(EqualThirds)

C5_Witness ==
    /\ pc = "done"
    /\ symmetricArm # Undefined
    /\ Len(arms) > Factorial(SEGMENTS)

\* C6: after ranking, bestArm and worstArm bound the torque of every Arm of
\* the list, whenever the list is not empty.
C6_BestAndWorstBound ==
    (pc = "ranked" /\ arms # <<>>) =>
        \A best \in {GetTorqueAtBase(bestArm)}, worst \in {GetTorqueAtBase(worstArm)} :
            \A arm \in Range(arms) :
                \A torque \in {GetTorqueAtBase(arm)} :
                    ~QuotientLess(torque, best) /\ ~QuotientLess(worst, torque)

C6_Witness ==
    /\ pc = "ranked"
    /\ Len(arms) >= 6
    /\ QuotientLess(GetTorqueAtBase(bestArm), GetTorqueAtBase(worstArm))
    /\ arms # UnsortedList

RECURSIVE TotalMass(_)
TotalMass(c) == IF c = <<>> THEN <<>> ELSE NumAdd(GetMass(Head(c)), TotalMass(Tail(c)))

RECURSIVE TotalLength(_)
TotalLength(c) == IF c = <<>> THEN 0 ELSE GetLength(Head(c)) + TotalLength(Tail(c))

\* mass of component i times (the lengths of the i - 1 components before it
\* plus its own centre of mass), summed from component i onwards
RECURSIVE TotalMoment(_, _)
TotalMoment(c, i) ==
    IF i > Len(c) THEN <<>>
    ELSE NumAdd(Times(TotalLength(SubSeq(c, 1, i - 1)) + GetCenterOfMass(c[i]),
                      GetMass(c[i])),
                TotalMoment(c, i + 1))

\* C7: for any Arm, getMass is the sum of the component masses, getLength the
\* sum of the component lengths, and getCenterOfMass the sum over components
\* of mass times (total length of the components before it + its own centre of
\* mass) divided by the sum of the masses, the Grabber being the last component.
C7_ArmAggregates ==
    pc = "built" =>
        \A arm \in Range(arms) :
            LET c == arm.components
            IN  /\ c[Len(c)] = Grabber
                /\ \A i \in 1..(Len(c) - 1) : c[i].type = "Segment"
                /\ ArmGetMass(arm) = TotalMass(c)
                /\ ArmGetLength(arm) = TotalLength(c)
                /\ QuotientEqual(ArmGetCenterOfMass(arm),
                                 Quotient(TotalMoment(c, 1), TotalMass(c)))

C7_Witness ==
    /\ pc = "built"
    /\ \E k \in 1..Len(arms) :
          /\ Len(arms[k].components) >= 4
          /\ Cardinality(Range(Lengths(arms[k]))) >= 2

\* the Arms built from the orderings of 12, 24, 36
Orderings == {k \in 1..Len(arms) : Range(Lengths(arms[k])) = {12, 24, 36}}
CentersOfMass == {ArmGetCenterOfMass(arms[k]) : k \in Orderings}
SameMassAndLength ==
    \A i, j \in Orderings :
        /\ ArmGetMass(arms[i]) = ArmGetMass(arms[j])
        /\ ArmGetLength(arms[i]) = ArmGetLength(arms[j])

SymmetricOnes == {k \in 1..Len(UnsortedList) : Symmetric(UnsortedList[k]) = "true"}

\* of pairs <<position, torque>>, the position of least torque, the earliest
\* among equals
LeastOf(pairs) ==
    LET least == CHOOSE p \in pairs :
                    \A q \in pairs :
                        QuotientLess(p[2], q[2]) \/ (~QuotientLess(q[2], p[2]) /\ p[1] <= q[1])
    IN  least[1]

\* the one of them of least torque, the earliest generated among equals
LeastTorque ==
    LeastOf({<<k, GetTorqueAtBase(UnsortedList[k])>> : k \in SymmetricOnes})

\* C10 as claimed: the symmetric lookup returns the first Arm, in the order
\* in which the Arms were generated, whose first three components have equal
\* length.
C10_FirstGenerated ==
    pc = "done" => symmetricArm = FindFrom(UnsortedList, 1)

\* C10 as amended: the lookup runs over the list after it has been sorted in
\* place: it returns, of the Arms whose first three components have equal
\* length, the one of least torque at the base (the earliest generated of
\* them when several have that torque), and undefined when there is none.
C10_FirstByTorque ==
    pc = "done" =>
        IF SymmetricOnes = {} THEN symmetricArm = Undefined
        ELSE symmetricArm = UnsortedList[LeastTorque]

C10_Witness ==
    /\ pc = "done"
    /\ symmetricArm # Undefined
    /\ symmetricArm # FindFrom(UnsortedList, 1)

====
